---------------------------- MODULE Spec2Model ----------------------------
(***************************************************************************)
(* The Microsoft Bot Framework channel of rasa.core.channels.botframework:  *)
(* the class-level token cache of BotFramework, its send operations, and    *)
(* the /webhook route of BotFrameworkInput.blueprint.                       *)
(*                                                                         *)
(* Every webhook request is one task of the event loop.  requests.post is   *)
(* a blocking call: a task that is inside send() keeps the loop's thread    *)
(* until send() returns, so other tasks step only while no task is inside   *)
(* a send.  Wall-clock time passes while a network call is outstanding and  *)
(* while the loop is idle.                                                  *)
(***************************************************************************)
EXTENDS Integers, Sequences, FiniteSets, TLC

\* ------------------------------------------------------------- bounds
\* webhook requests handled in one run
NumTasks == 2
\* last instant of the wall clock
MaxTime == 3
\* send operations the pipeline callback makes for one message
MaxOps == 1

Tasks == 1..NumTasks

\* seconds a network call may take (requests.post, timeout=60)
Latency == {0, 1}
\* values of expires_in the token endpoint answers with
ExpiresIn == {1, 2}
\* credentials of the BotFrameworkInput instances serving the route: the
\* first request goes to one instance, the others to a second one
AppIds == {"app1", "app2"}
AppIdOf(t) == IF t = 1 THEN "app1" ELSE "app2"
AppPasswordOf(t) == <<"secret", AppIdOf(t)>>

\* ------------------------------------------------------------- values
NL == "\n"

\* Python's None
None == [none |-> TRUE]

\* texts the pipeline sends: "single", "A\n\nB\n\nC", "A\n\n\n\nB", ""
TextSingle == <<"s", "i", "n", "g", "l", "e">>
TextABC == <<"A", NL, NL, "B", NL, NL, "C">>
TextAGapB == <<"A", NL, NL, NL, NL, "B">>
TextEmpty == <<>>
Texts == {TextSingle, TextABC, TextAGapB, TextEmpty}

\* element lists the pipeline passes to send_custom_message
ElementsFoo == <<[foo |-> "bar"]>>
ElementsTwo == <<[text |-> <<"X">>, type |-> "typing"], [foo |-> "baz"]>>
ElementLists == {<<>>, ElementsFoo, ElementsTwo}

\* activities the platform posts to /webhook, as parsed JSON
MessageEvent(c) ==
    [type |-> "message",
     conversation |-> [id |-> c],
     recipient |-> [id |-> "bot", name |-> "rasa"],
     serviceUrl |-> <<"https://", c, "/">>,
     text |-> <<"h", "i">>,
     from |-> [id |-> "user"]]
ConversationIds == {"conv1", "conv2"}
\* a message activity that lacks serviceUrl, text and from
MissingFieldsEvent == [type |-> "message", conversation |-> [id |-> "conv1"]]
\* a conversationUpdate activity: addressed like a message, without text
ConversationUpdateEvent ==
    [type |-> "conversationUpdate",
     conversation |-> [id |-> "conv1"],
     recipient |-> [id |-> "bot", name |-> "rasa"],
     serviceUrl |-> <<"https://", "conv1", "/">>,
     from |-> [id |-> "user"],
     membersAdded |-> <<[id |-> "user"]>>]
NoTypeEvent == [conversation |-> [id |-> "conv1"]]
JsonEvents ==
    {MessageEvent(c) : c \in ConversationIds}
        \cup {MissingFieldsEvent, ConversationUpdateEvent, NoTypeEvent}

\* request bodies: JSON text of an activity, text that is not JSON, no body
Bodies ==
    {[raw |-> "json", value |-> e] : e \in JsonEvents}
        \cup {[raw |-> "notjson"], [raw |-> "empty"]}

\* --------------------------------------------------------- pure helpers
HasKeys(d, ks) == ks \subseteq DOMAIN d

\* a refresh on every call, whatever the stored expiry
TokenExpiredAlways(expiry, t) == TRUE

\* the comparison that decides a refresh
TokenExpired(expiry, t) == expiry < t

\* the expiry stored after a successful token response read at time t
NewExpiration(t, expires_in) == t + expires_in

\* the headers stored after a successful token response
BearerHeaders(access_token) ==
    [content_type |-> "application/json",
     Authorization |-> <<"Bearer", access_token>>]

\* the access_token of a token response: a signed statement of the client
\* it was issued to, when, and for how long
AccessToken(client_id, iat, expires_in) ==
    [appid |-> client_id, iat |-> iat, exp |-> iat + expires_in]

\* an update in which the keys already present keep their values
UpdateKeepsDefaults(d, m) ==
    [k \in DOMAIN d \cup DOMAIN m |-> IF k \in DOMAIN d THEN d[k] ELSE m[k]]

\* dict.update: the keys of m win, the other keys of d stay
Update(d, m) ==
    [k \in DOMAIN d \cup DOMAIN m |-> IF k \in DOMAIN m THEN m[k] ELSE d[k]]

\* the base envelope of every outbound activity
Envelope(recipient_id, bot_id) ==
    [type |-> "message",
     recipient |-> [id |-> recipient_id],
     from |-> bot_id,
     channelData |-> [notification |-> [alert |-> "true"]],
     text |-> <<>>]

\* the activities endpoint of the conversation a channel is bound to
PostMessageUri(ch) ==
    [base |-> ch.global_uri, conversation |-> ch.conversation.id]

\* str.split("\n\n"): scan left to right, cut at each separator found
RECURSIVE SplitFrom(_, _, _)
SplitFrom(s, i, cur) ==
    IF i > Len(s) THEN <<cur>>
    ELSE IF i < Len(s) /\ s[i] = NL /\ s[i + 1] = NL
         THEN <<cur>> \o SplitFrom(s, i + 2, <<>>)
         ELSE SplitFrom(s, i + 1, Append(cur, s[i]))

Split(message) == SplitFrom(message, 1, <<>>)

\* the payloads send_text_message hands to send, in order
TextMessages(message) ==
    [k \in 1..Len(Split(message)) |-> [text |-> Split(message)[k]]]

\* the response the route ends with
SuccessResponse == [status |-> 200, body |-> "success"]

\* what the server answers when the handler raises: request.json raises
\* InvalidUsage for a body that is not JSON
ErrorResponse == [status |-> 400, body |-> "error"]

\* a channel bound to one fixed conversation, whatever the event says
NewBotFrameworkFixed(app_id, app_password, conversation, bot_id, service_url) ==
    [app_id |-> app_id,
     app_password |-> app_password,
     conversation |-> [id |-> "conv1"],
     global_uri |-> <<"https://", "conv1", "/", "v3/">>,
     bot_id |-> bot_id]

\* BotFramework.__init__
NewBotFramework(app_id, app_password, conversation, bot_id, service_url) ==
    [app_id |-> app_id,
     app_password |-> app_password,
     conversation |-> conversation,
     global_uri |-> service_url \o <<"v3/">>,
     bot_id |-> bot_id]

\* UserMessage(text, out_channel, sender_id, input_channel)
NewUserMessage(text, sender_id) ==
    [text |-> text, sender_id |-> sender_id, input_channel |-> "botframework"]

\* -------------------------------------------------------------- state
VARIABLES
    now,                    \* datetime.datetime.now()
    token_expiration_date,  \* BotFramework.token_expiration_date
    headers,                \* BotFramework.headers
    pc,                     \* where each webhook task stands
    request,                \* each task's request: body and serving instance
    out_channel,            \* the BotFramework built for the task's event
    user_msg,               \* the UserMessage handed to the callback
    frame,                  \* locals of the send operation a task is in
    posts,                  \* activity POSTs of the send operation in hand
    post_calls,             \* activity POSTs each task has issued
    token_calls,            \* token-endpoint POSTs each task has issued
    callbacks,              \* on_new_message invocations per task
    ops,                    \* send operations the callback has made
    send_outcome,           \* how the task's last send operation ended
    branch,                 \* the branch of the route the request took
    response                \* the HTTP response each request got

vars == <<now, token_expiration_date, headers, pc, request,
          out_channel, user_msg, frame, posts, post_calls, token_calls,
          callbacks, ops, send_outcome, branch, response>>

cache == <<token_expiration_date, headers>>
event == <<request, out_channel, user_msg>>
calls == <<post_calls, token_calls>>

NoFrame == [op |-> "none"]

\* a task inside send() holds the thread: requests.post does not yield
InSend(t) == pc[t] \in {"send", "token_wait", "post_wait"}
LoopFree == \A t \in Tasks : ~InSend(t)

\* The class body runs at import: the expiry is the import time, which lies
\* before the first request, and no headers are stored.
Init ==
    /\ now = 1
    /\ token_expiration_date = 0
    /\ headers = None
    /\ pc = [t \in Tasks |-> "idle"]
    /\ request = [t \in Tasks |-> None]
    /\ out_channel = [t \in Tasks |-> None]
    /\ user_msg = [t \in Tasks |-> None]
    /\ frame = [t \in Tasks |-> NoFrame]
    /\ posts = [t \in Tasks |-> <<>>]
    /\ post_calls = [t \in Tasks |-> 0]
    /\ token_calls = [t \in Tasks |-> 0]
    /\ callbacks = [t \in Tasks |-> 0]
    /\ ops = [t \in Tasks |-> 0]
    /\ send_outcome = [t \in Tasks |-> "none"]
    /\ branch = [t \in Tasks |-> "none"]
    /\ response = [t \in Tasks |-> None]

\* ------------------------------------------------------ webhook route
\* request.json: the parsed body, None for an empty body; raises for a
\* body that is not JSON
RequestJson(body) ==
    IF body.raw = "json" THEN body.value ELSE None

RequestJsonRaises(body) == body.raw = "notjson"

\* every event type taken for a message
IsMessageAny(postdata) == TRUE

\* postdata["type"] == "message"
IsMessage(postdata) == postdata.type = "message"

\* the subscripts of the try block that raise KeyError or TypeError
TypeLookupRaises(postdata) == ~HasKeys(postdata, {"type"})

ChannelLookupRaises(postdata) ==
    ~HasKeys(postdata, {"conversation", "recipient", "serviceUrl"})

MessageLookupRaises(postdata) ==
    IF HasKeys(postdata, {"text", "from"})
    THEN ~HasKeys(postdata.from, {"id"})
    ELSE TRUE

\* the route returns r; the handler's locals are gone
Respond(t, r, b) ==
    /\ response' = [response EXCEPT ![t] = r]
    /\ branch' = [branch EXCEPT ![t] = b]
    /\ pc' = [pc EXCEPT ![t] = "done"]
    /\ frame' = [frame EXCEPT ![t] = NoFrame]
    /\ posts' = [posts EXCEPT ![t] = <<>>]

Receive(t, body) ==
    request' = [request EXCEPT ![t] = [body |-> body, app_id |-> AppIdOf(t)]]

\* POST /webhook with a body that is not JSON: request.json raises before
\* the try block is entered, and the server answers with an error
WebhookInvalidJson(t) ==
    /\ pc[t] = "idle" /\ LoopFree
    /\ \E body \in Bodies :
        /\ RequestJsonRaises(body)
        /\ Receive(t, body)
    /\ Respond(t, ErrorResponse, "invalid_json")
    /\ UNCHANGED <<now, cache, out_channel, user_msg, calls,
                   callbacks, ops, send_outcome>>

\* POST /webhook with an event whose type is not "message"
WebhookNotMessage(t) ==
    /\ pc[t] = "idle" /\ LoopFree
    /\ \E body \in Bodies :
        /\ ~RequestJsonRaises(body)
        /\ ~TypeLookupRaises(RequestJson(body))
        /\ ~IsMessage(RequestJson(body))
        /\ Receive(t, body)
    /\ Respond(t, SuccessResponse, "not_message")
    /\ UNCHANGED <<now, cache, out_channel, user_msg, calls,
                   callbacks, ops, send_outcome>>

\* POST /webhook with an event a subscript of the try block fails on: the
\* except clause logs it.  The channel is built when its three fields are
\* there and the failure is in the UserMessage arguments.
WebhookException(t) ==
    /\ pc[t] = "idle" /\ LoopFree
    /\ \E body \in Bodies :
        LET postdata == RequestJson(body) IN
        /\ ~RequestJsonRaises(body)
        /\ IF TypeLookupRaises(postdata)
           THEN TRUE
           ELSE /\ IsMessage(postdata)
                /\ IF ChannelLookupRaises(postdata)
                   THEN TRUE
                   ELSE MessageLookupRaises(postdata)
        /\ Receive(t, body)
        /\ out_channel' =
             IF ~TypeLookupRaises(postdata) /\ ~ChannelLookupRaises(postdata)
             THEN [out_channel EXCEPT ![t] =
                     NewBotFramework(AppIdOf(t), AppPasswordOf(t),
                                     postdata.conversation,
                                     postdata.recipient,
                                     postdata.serviceUrl)]
             ELSE out_channel
    /\ Respond(t, SuccessResponse, "exception")
    /\ UNCHANGED <<now, cache, user_msg, calls, callbacks, ops,
                   send_outcome>>

\* on_new_message started without being awaited: the route answers while
\* the callback is still running
WebhookDispatchNoAwait(t) ==
    /\ pc[t] = "idle" /\ LoopFree
    /\ \E body \in Bodies :
        LET postdata == RequestJson(body) IN
        /\ ~RequestJsonRaises(body)
        /\ ~TypeLookupRaises(postdata)
        /\ IsMessage(postdata)
        /\ ~ChannelLookupRaises(postdata)
        /\ ~MessageLookupRaises(postdata)
        /\ Receive(t, body)
        /\ out_channel' =
             [out_channel EXCEPT ![t] =
                NewBotFramework(AppIdOf(t), AppPasswordOf(t),
                                postdata.conversation,
                                postdata.recipient,
                                postdata.serviceUrl)]
        /\ user_msg' = [user_msg EXCEPT ![t] =
                          NewUserMessage(postdata.text, postdata.from.id)]
    /\ callbacks' = [callbacks EXCEPT ![t] = @ + 1]
    /\ pc' = [pc EXCEPT ![t] = "pipeline"]
    /\ branch' = [branch EXCEPT ![t] = "dispatched"]
    /\ response' = [response EXCEPT ![t] = SuccessResponse]
    /\ UNCHANGED <<now, cache, frame, posts, calls, ops, send_outcome>>

\* POST /webhook with a message event: the channel and the UserMessage are
\* built and on_new_message is awaited
WebhookDispatch(t) ==
    /\ pc[t] = "idle" /\ LoopFree
    /\ \E body \in Bodies :
        LET postdata == RequestJson(body) IN
        /\ ~RequestJsonRaises(body)
        /\ ~TypeLookupRaises(postdata)
        /\ IsMessage(postdata)
        /\ ~ChannelLookupRaises(postdata)
        /\ ~MessageLookupRaises(postdata)
        /\ Receive(t, body)
        /\ out_channel' =
             [out_channel EXCEPT ![t] =
                NewBotFramework(AppIdOf(t), AppPasswordOf(t),
                                postdata.conversation,
                                postdata.recipient,
                                postdata.serviceUrl)]
        /\ user_msg' = [user_msg EXCEPT ![t] =
                          NewUserMessage(postdata.text, postdata.from.id)]
    /\ callbacks' = [callbacks EXCEPT ![t] = @ + 1]
    /\ pc' = [pc EXCEPT ![t] = "pipeline"]
    /\ branch' = [branch EXCEPT ![t] = "dispatched"]
    /\ UNCHANGED <<now, cache, frame, posts, calls, ops,
                   send_outcome, response>>

\* on_new_message returns: the route answers
PipelineReturn(t) ==
    /\ pc[t] = "pipeline" /\ LoopFree
    /\ Respond(t, SuccessResponse, "callback_returned")
    /\ UNCHANGED <<now, cache, event, calls, callbacks, ops,
                   send_outcome>>

\* an exception of on_new_message that no except clause catches: the
\* server answers with an error
PipelineRaiseEscapes(t) ==
    /\ pc[t] = "pipeline" /\ LoopFree
    /\ Respond(t, [status |-> 500, body |-> "error"], "callback_raised")
    /\ UNCHANGED <<now, cache, event, calls, callbacks, ops, send_outcome>>

\* on_new_message raises an exception of its own: the except clause logs it
PipelineRaise(t) ==
    /\ pc[t] = "pipeline" /\ LoopFree
    /\ Respond(t, SuccessResponse, "callback_raised")
    /\ UNCHANGED <<now, cache, event, calls, callbacks, ops,
                   send_outcome>>

\* ---------------------------------------------------- send operations
\* the hero card send_image_url wraps the url in
ImageMessage(image_url) ==
    [attachments |->
        <<[contentType |-> "application/vnd.microsoft.card.hero",
           content |-> [images |-> <<[url |-> image_url]>>]]>>]

\* the hero card send_text_with_buttons wraps text and buttons in
ButtonsMessage(message, buttons) ==
    [attachments |->
        <<[contentType |-> "application/vnd.microsoft.card.hero",
           content |-> [subtitle |-> message, buttons |-> buttons]]>>]

\* the body send() posts: the envelope updated with message_data
SendData(ch, recipient_id, message_data) ==
    Update(Envelope(recipient_id, ch.bot_id), message_data)

\* the callback calls a send operation of its channel; msgs are the
\* message_data of the send() calls the operation makes, in order
BeginSend(t, op, arg, msgs) ==
    /\ pc[t] = "pipeline" /\ LoopFree
    /\ ops[t] < MaxOps
    /\ ops' = [ops EXCEPT ![t] = @ + 1]
    /\ frame' = [frame EXCEPT ![t] =
                   [op |-> op, arg |-> arg,
                    recipient_id |-> user_msg[t].sender_id,
                    queue |-> msgs]]
    /\ posts' = [posts EXCEPT ![t] = <<>>]
    /\ send_outcome' = [send_outcome EXCEPT ![t] = "running"]
    /\ pc' = [pc EXCEPT ![t] = "send"]
    /\ UNCHANGED <<now, cache, event, calls, callbacks, branch,
                   response>>

\* an exception leaves the send operation: it passes through the callback
\* to the except clause of the route, which logs it
SendRaises(t, exc) ==
    /\ send_outcome' = [send_outcome EXCEPT ![t] = exc]
    /\ Respond(t, SuccessResponse, "send_raised")

send_text_message(t) ==
    \E message \in Texts :
        BeginSend(t, "send_text_message", message, TextMessages(message))

send_image_url(t) ==
    BeginSend(t, "send_image_url", "image.jpg",
              <<ImageMessage("image.jpg")>>)

send_text_with_buttons(t) ==
    BeginSend(t, "send_text_with_buttons", TextSingle,
              <<ButtonsMessage(TextSingle, <<"yes", "no">>)>>)

\* send() called with an empty payload when the list is empty
send_custom_message_unchecked(t) ==
    \E elements \in ElementLists :
        BeginSend(t, "send_custom_message", elements,
                  IF elements = <<>> THEN << <<>> >> ELSE <<elements[1]>>)

\* elements[0] raises IndexError for an empty list, before send() is called
send_custom_message(t) ==
    \E elements \in ElementLists :
        IF elements = <<>>
        THEN /\ pc[t] = "pipeline" /\ LoopFree
             /\ ops[t] < MaxOps
             /\ ops' = [ops EXCEPT ![t] = @ + 1]
             /\ SendRaises(t, "IndexError")
             /\ UNCHANGED <<now, cache, event, calls, callbacks>>
        ELSE BeginSend(t, "send_custom_message", elements, <<elements[1]>>)

\* requests.post of send(): the activity goes out, at time at, with the
\* headers that _get_headers returned
IssuePost(t, hdrs, refreshed, at, expiry) ==
    /\ posts' = [posts EXCEPT ![t] =
                   Append(@, [uri |-> PostMessageUri(out_channel[t]),
                              headers |-> hdrs,
                              data |-> SendData(out_channel[t],
                                                frame[t].recipient_id,
                                                Head(frame[t].queue)),
                              usable |-> at < expiry,
                              refreshed |-> refreshed,
                              status |-> "inflight"])]
    /\ post_calls' = [post_calls EXCEPT ![t] = @ + 1]

\* a cache kept apart by credentials: stored headers are returned only to
\* the client they were issued to, another client asks for its own token
get_headers_cached_per_app(t) ==
    /\ pc[t] = "send"
    /\ ~TokenExpired(token_expiration_date, now)
    /\ IF headers # None /\ headers.Authorization[2].appid = out_channel[t].app_id
       THEN /\ IssuePost(t, headers, FALSE, now, token_expiration_date)
            /\ pc' = [pc EXCEPT ![t] = "post_wait"]
            /\ UNCHANGED <<frame, token_calls>>
       ELSE /\ token_calls' = [token_calls EXCEPT ![t] = @ + 1]
            /\ frame' = [frame EXCEPT ![t] =
                           [op |-> @.op, arg |-> @.arg,
                            recipient_id |-> @.recipient_id,
                            queue |-> @.queue,
                            call_time |-> now,
                            payload |->
                                [client_id |-> out_channel[t].app_id]]]
            /\ pc' = [pc EXCEPT ![t] = "token_wait"]
            /\ UNCHANGED <<posts, post_calls>>
    /\ UNCHANGED <<now, cache, event, callbacks, ops, send_outcome, branch,
                   response>>

\* send() up to its POST when the stored expiry is not before now:
\* _get_headers returns the stored headers
get_headers_cached(t) ==
    /\ pc[t] = "send"
    /\ ~TokenExpired(token_expiration_date, now)
    /\ IssuePost(t, headers, FALSE, now, token_expiration_date)
    /\ pc' = [pc EXCEPT ![t] = "post_wait"]
    /\ UNCHANGED <<now, cache, event, frame, token_calls, callbacks,
                   ops, send_outcome, branch, response>>

\* send() up to the POST to the token endpoint when the stored expiry is
\* before now
get_headers_request(t) ==
    /\ pc[t] = "send"
    /\ TokenExpired(token_expiration_date, now)
    /\ token_calls' = [token_calls EXCEPT ![t] = @ + 1]
    /\ frame' = [frame EXCEPT ![t] =
                   [op |-> @.op, arg |-> @.arg,
                    recipient_id |-> @.recipient_id, queue |-> @.queue,
                    call_time |-> now,
                    payload |->
                        [client_id |-> out_channel[t].app_id,
                         client_secret |-> out_channel[t].app_password,
                         grant_type |-> "client_credentials",
                         scope |-> "https://api.botframework.com/.default"]]]
    /\ pc' = [pc EXCEPT ![t] = "token_wait"]
    /\ UNCHANGED <<now, cache, event, posts, post_calls, callbacks,
                   ops, send_outcome, branch, response>>

\* a refresh that replaces the stored expiry and leaves the stored headers
get_headers_ok_expiry_only(t) ==
    /\ pc[t] = "token_wait"
    /\ \E d \in Latency, expires_in \in ExpiresIn :
        /\ now + d <= MaxTime
        /\ now' = now + d
        /\ token_expiration_date' = NewExpiration(now', expires_in)
        /\ headers' = headers
        /\ IssuePost(t, headers', TRUE, now', token_expiration_date')
    /\ pc' = [pc EXCEPT ![t] = "post_wait"]
    /\ UNCHANGED <<event, frame, token_calls, callbacks, ops, send_outcome,
                   branch, response>>

\* the token endpoint answers 2xx with access_token and expires_in: both
\* class attributes are replaced and the activity goes out
get_headers_ok(t) ==
    /\ pc[t] = "token_wait"
    /\ \E d \in Latency, expires_in \in ExpiresIn :
        /\ now + d <= MaxTime
        /\ now' = now + d
        /\ token_expiration_date' = NewExpiration(now', expires_in)
        /\ headers' = BearerHeaders(AccessToken(frame[t].payload.client_id,
                                                 now', expires_in))
        /\ IssuePost(t, headers', TRUE, now', token_expiration_date')
    /\ pc' = [pc EXCEPT ![t] = "post_wait"]
    /\ UNCHANGED <<event, frame, token_calls, callbacks, ops, send_outcome,
                   branch, response>>

\* a failed refresh that is remembered: the stored expiry moves on
get_headers_not_ok_cached(t) ==
    /\ pc[t] = "token_wait"
    /\ \E d \in Latency :
        /\ now + d <= MaxTime
        /\ now' = now + d
        /\ token_expiration_date' = NewExpiration(now', 1)
        /\ IssuePost(t, None, TRUE, now', token_expiration_date')
    /\ pc' = [pc EXCEPT ![t] = "post_wait"]
    /\ UNCHANGED <<headers, event, frame, token_calls, callbacks, ops,
                   send_outcome, branch, response>>

\* the token endpoint answers with a status that is not 2xx: the error is
\* logged, _get_headers returns None and the activity goes out with it
get_headers_not_ok(t) ==
    /\ pc[t] = "token_wait"
    /\ \E d \in Latency :
        /\ now + d <= MaxTime
        /\ now' = now + d
        /\ IssuePost(t, None, TRUE, now', token_expiration_date)
    /\ pc' = [pc EXCEPT ![t] = "post_wait"]
    /\ UNCHANGED <<cache, event, frame, token_calls, callbacks, ops,
                   send_outcome, branch, response>>

\* the token endpoint answers 2xx with a body that is not JSON (json()
\* raises ValueError) or lacks access_token or expires_in (the subscript
\* raises KeyError)
get_headers_malformed(t) ==
    /\ pc[t] = "token_wait"
    /\ \E d \in Latency :
        /\ now + d <= MaxTime
        /\ now' = now + d
    /\ \E exc \in {"ValueError", "KeyError"} : SendRaises(t, exc)
    /\ UNCHANGED <<cache, event, calls, callbacks, ops>>

\* the activities endpoint answers: a status that is not 2xx is logged;
\* the operation goes on to its next send() or returns to the callback,
\* and its locals are gone
send_response(t) ==
    /\ pc[t] = "post_wait"
    /\ \E d \in Latency, status \in {"ok", "failed"} :
        /\ now + d <= MaxTime
        /\ now' = now + d
        /\ IF Len(frame[t].queue) > 1
           THEN /\ posts' = [posts EXCEPT ![t][Len(posts[t])].status = status]
                /\ frame' = [frame EXCEPT ![t].queue = Tail(@)]
                /\ pc' = [pc EXCEPT ![t] = "send"]
                /\ UNCHANGED send_outcome
           ELSE /\ posts' = [posts EXCEPT ![t] = <<>>]
                /\ frame' = [frame EXCEPT ![t] = NoFrame]
                /\ pc' = [pc EXCEPT ![t] = "pipeline"]
                /\ send_outcome' = [send_outcome EXCEPT ![t] = "returned"]
    /\ UNCHANGED <<cache, event, calls, callbacks, ops, branch,
                   response>>

\* wall-clock time passes while the loop is idle
Tick ==
    /\ LoopFree
    /\ now < MaxTime
    /\ now' = now + 1
    /\ UNCHANGED <<cache, pc, event, frame, posts, calls, callbacks,
                   ops, send_outcome, branch, response>>

Next ==
    \/ Tick
    \/ \E t \in Tasks :
        \/ WebhookInvalidJson(t)
        \/ WebhookNotMessage(t)
        \/ WebhookException(t)
        \/ WebhookDispatch(t)
        \/ send_text_message(t)
        \/ send_image_url(t)
        \/ send_text_with_buttons(t)
        \/ send_custom_message(t)
        \/ get_headers_cached(t)
        \/ get_headers_request(t)
        \/ get_headers_ok(t)
        \/ get_headers_not_ok(t)
        \/ get_headers_malformed(t)
        \/ send_response(t)
        \/ PipelineReturn(t)
        \/ PipelineRaise(t)

Spec == Init /\ [][Next]_vars

\* the steps of a request that has been dispatched: the callback, its send
\* operations and the answers to their network calls
Progress(t) ==
    \/ send_text_message(t)
    \/ send_image_url(t)
    \/ send_text_with_buttons(t)
    \/ send_custom_message(t)
    \/ get_headers_cached(t)
    \/ get_headers_request(t)
    \/ get_headers_ok(t)
    \/ get_headers_not_ok(t)
    \/ get_headers_malformed(t)
    \/ send_response(t)
    \/ PipelineReturn(t)
    \/ PipelineRaise(t)

\* The event loop runs every task that is ready, each requests.post ends
\* within its timeout, and the callback terminates: a dispatched request
\* that can step does step.
FairSpec == Spec /\ \A t \in Tasks : WF_vars(Progress(t))

\* ------------------------------------------------------------- claims
Received(t) == request[t] # None
JsonBody(t) == IF Received(t) THEN request[t].body.raw = "json" ELSE FALSE
Activity(t) == request[t].body.value
TypeOf(t) ==
    IF JsonBody(t) /\ "type" \in DOMAIN Activity(t)
    THEN Activity(t).type
    ELSE "(none)"
\* the request carries a type="message" event with every expected field
WellFormedMessage(t) ==
    IF JsonBody(t)
    THEN Activity(t) \in {MessageEvent(c) : c \in ConversationIds}
    ELSE FALSE
Answered(t) == response[t] # None
Acknowledged(t) == response[t] = [status |-> 200, body |-> "success"]
LastPost(t) == posts[t][Len(posts[t])]

\* C1: a request whose body is a type="message" event, with all its fields
\* or with fields missing, and also when the pipeline callback raises, is
\* answered with HTTP 200 and the text "success".
C1_WebhookAcknowledges ==
    \A t \in Tasks :
        (TypeOf(t) = "message" /\ pc[t] = "done") => Acknowledged(t)

\* a callback that raised and an event with missing fields, both answered
C1_Witness ==
    \E t, u \in Tasks :
        /\ WellFormedMessage(t) /\ branch[t] = "callback_raised"
        /\ Acknowledged(t)
        /\ JsonBody(u) /\ Activity(u) = MissingFieldsEvent
        /\ Acknowledged(u)

\* C2: a request body that fails to parse, a non-JSON body included, is
\* still answered with the success acknowledgment.
C2_ParseFailureAcknowledged ==
    \A t \in Tasks :
        (Received(t) /\ pc[t] = "done" /\ ~JsonBody(t)) => Acknowledged(t)

\* C3: an event whose type is not "message" invokes the callback zero
\* times, builds no channel, issues no activity POST and no token call, and
\* is acknowledged with success.
C3_NonMessageSkipped ==
    \A t \in Tasks :
        (JsonBody(t) /\ TypeOf(t) \notin {"message", "(none)"}) =>
            /\ callbacks[t] = 0
            /\ out_channel[t] = None
            /\ post_calls[t] = 0
            /\ token_calls[t] = 0
            /\ Acknowledged(t)

\* a conversationUpdate answered while another request did send
C3_Witness ==
    \E t, u \in Tasks :
        /\ TypeOf(t) = "conversationUpdate" /\ pc[t] = "done"
        /\ post_calls[u] > 0

\* C4: a type="message" event with all its fields invokes the callback
\* exactly once, and the response exists only once the callback, with every
\* send it awaited, has completed.
C4_CallbackGatesResponse ==
    \A t \in Tasks :
        WellFormedMessage(t) =>
            /\ callbacks[t] = 1
            /\ Answered(t) =>
                /\ pc[t] = "done"
                /\ send_outcome[t] # "running"
                /\ posts[t] = <<>>

\* a message answered after its callback sent an activity and returned
C4_Witness ==
    \E t \in Tasks :
        /\ WellFormedMessage(t) /\ Acknowledged(t)
        /\ branch[t] = "callback_returned"
        /\ send_outcome[t] = "returned" /\ post_calls[t] > 0

\* C5: a send() that finds the stored expiry in the future issues no call
\* to the token endpoint, leaves the stored expiry and headers as they
\* are, and posts with the stored headers.
C5_TokenReuse ==
    [][\A t \in Tasks :
        (pc[t] = "send" /\ now < token_expiration_date) =>
            /\ token_calls' = token_calls
            /\ token_expiration_date' = token_expiration_date
            /\ headers' = headers
            /\ pc'[t] = "post_wait"
            /\ posts'[t][Len(posts'[t])].headers = headers]_vars

\* an activity in flight with a stored token that another instance fetched
C5_Witness ==
    \E t \in Tasks :
        /\ pc[t] = "post_wait"
        /\ ~LastPost(t).refreshed
        /\ LastPost(t).usable
        /\ LastPost(t).headers = headers
        /\ headers # None
        /\ headers.Authorization[2].appid # out_channel[t].app_id

\* the token of the headers a successful token response stored
StoredToken(h) == h.Authorization[2]

\* C6: a send() that finds the stored token expired or absent (now not
\* before the stored expiry) issues exactly one call to the token endpoint;
\* after a successful response the stored expiry is the time of the call
\* plus expires_in, and the activity is posted with the new token.
C6_TokenRefresh ==
    [][\A t \in Tasks :
        /\ (pc[t] = "send" /\ ~(now < token_expiration_date)) =>
                token_calls'[t] = token_calls[t] + 1
        /\ pc[t] = "token_wait" => token_calls'[t] = token_calls[t]
        /\ (pc[t] = "token_wait" /\ pc'[t] = "post_wait"
                /\ posts'[t][Len(posts'[t])].headers # None) =>
              /\ posts'[t][Len(posts'[t])].headers = headers'
              /\ token_expiration_date' =
                    frame[t].call_time
                        + (StoredToken(headers').exp - StoredToken(headers').iat)]_vars

\* C7: no activity is posted with a stored token whose expiry is at or
\* before the time of the send unless that send refreshed the token first.
C7_NoExpiredTokenSent ==
    \A t \in Tasks : \A i \in 1..Len(posts[t]) :
        (posts[t][i].headers # None /\ ~posts[t][i].usable) =>
            posts[t][i].refreshed

\* C8: when the token endpoint answers with a failure, the stored expiry
\* and headers stay as they are and the send that asked issues no activity
\* POST.
C8_FailedRefreshUndeliverable ==
    [][\A t \in Tasks :
        (/\ pc[t] = "token_wait"
         /\ \/ pc'[t] = "done"
            \/ /\ pc'[t] = "post_wait"
               /\ posts'[t][Len(posts'[t])].headers = None) =>
            /\ token_expiration_date' = token_expiration_date
            /\ headers' = headers
            /\ post_calls'[t] = post_calls[t]]_vars

\* C9: no send operation ends by raising because of the token endpoint's
\* answer, be it a failure status or a malformed body.
C9_AuthFailureNeverRaises ==
    \A t \in Tasks : send_outcome[t] \notin {"ValueError", "KeyError"}

\* the texts of the activities an operation has posted so far, in order
SentTexts(t) == [i \in 1..Len(posts[t]) |-> posts[t][i].data.text]

\* paragraphs put back together with the separator between them
RECURSIVE JoinParagraphs(_)
JoinParagraphs(parts) ==
    IF Len(parts) = 0 THEN <<>>
    ELSE IF Len(parts) = 1 THEN parts[1]
    ELSE parts[1] \o <<NL, NL>> \o JoinParagraphs(Tail(parts))

\* C10: send_text_message posts the paragraphs of its text in source
\* order, each after the one before it has been answered, and when the
\* operation ends every paragraph has been posted once: three posts A, B, C
\* for "A\n\nB\n\nC", one for "single".
C10_ParagraphsInOrder ==
    [][\A t \in Tasks :
        frame[t].op = "send_text_message" =>
            /\ \A i \in 1..(Len(posts[t]) - 1) :
                    posts[t][i].status # "inflight"
            /\ (InSend(t) /\ pc'[t] \in {"pipeline", "done"}) =>
                /\ JoinParagraphs(SentTexts(t)) = frame[t].arg
                /\ frame[t].arg = TextABC =>
                        SentTexts(t) = << <<"A">>, <<"B">>, <<"C">> >>
                /\ frame[t].arg = TextSingle =>
                        SentTexts(t) = <<TextSingle>>]_vars

\* C11: send_text_message posts no activity whose text is the empty
\* string: consecutive separators ("A\n\n\n\nB"), a leading or trailing
\* separator, or an empty text produce no empty-text POST.
C11_NoEmptyFragmentSent ==
    \A t \in Tasks : \A i \in 1..Len(posts[t]) :
        frame[t].op = "send_text_message" => posts[t][i].data.text # <<>>

\* C12: a send_text_message of a text with n paragraphs issues exactly n
\* activity POSTs, one per paragraph, whichever of them are answered with
\* a failure status: no failure ends the loop early, no paragraph is posted
\* twice, and the operation returns to the callback without raising.
C12_DeliveryFailureIsolated ==
    [][\A t \in Tasks :
        (/\ frame[t].op = "send_text_message"
         /\ InSend(t) /\ ~InSend(t)') =>
            /\ pc'[t] = "pipeline"
            /\ send_outcome'[t] = "returned"
            /\ Len(posts[t]) = Len(Split(frame[t].arg))
            /\ \A i \in 1..Len(posts[t]) :
                    posts[t][i].data.text = Split(frame[t].arg)[i]]_vars

\* C13: send_custom_message with an empty list is rejected before any
\* network call: no send() is begun for it, the task issues no token call
\* and no activity POST, and the stored expiry and headers stay as they are.
C13_EmptyCustomRejected ==
    [][\A t \in Tasks :
        ops'[t] = ops[t] + 1 =>
            /\ frame'[t].op = "send_custom_message" => frame'[t].arg # <<>>
            /\ frame'[t].op = "none" =>
                /\ send_outcome'[t] = "IndexError"
                /\ ~InSend(t)'
                /\ token_calls' = token_calls
                /\ post_calls' = post_calls
                /\ token_expiration_date' = token_expiration_date
                /\ headers' = headers]_vars

\* an empty list rejected while a token fetched for another request is
\* stored
C13_Witness ==
    \E t \in Tasks :
        /\ send_outcome[t] = "IndexError" /\ branch[t] = "send_raised"
        /\ token_calls[t] = 0 /\ post_calls[t] = 0
        /\ headers # None

\* the base envelope of a reply to the task's event, as the claim lists it
BaseEnvelopeOf(t) ==
    [type |-> "message",
     recipient |-> [id |-> Activity(t).from.id],
     from |-> Activity(t).recipient,
     channelData |-> [notification |-> [alert |-> "true"]],
     text |-> <<>>]

\* body is base overridden field by field by element
Overridden(body, base, element) ==
    /\ DOMAIN body = DOMAIN base \cup DOMAIN element
    /\ \A k \in DOMAIN element : body[k] = element[k]
    /\ \A k \in DOMAIN base \ DOMAIN element : body[k] = base[k]

\* C14: send_custom_message with a non-empty list makes exactly one call
\* of send(), whose body is the base envelope (type "message", recipient
\* id, from = bot identity, notification alert, empty text) overridden
\* field by field by elements[0]; the later elements are ignored.
C14_CustomPassThrough ==
    \A t \in Tasks :
        frame[t].op = "send_custom_message" =>
            /\ Len(frame[t].queue) = 1
            /\ Len(posts[t]) = (IF pc[t] = "post_wait" THEN 1 ELSE 0)
            /\ Overridden(SendData(out_channel[t], frame[t].recipient_id,
                                   Head(frame[t].queue)),
                          BaseEnvelopeOf(t), frame[t].arg[1])
            /\ \A i \in 1..Len(posts[t]) :
                    Overridden(posts[t][i].data, BaseEnvelopeOf(t),
                               frame[t].arg[1])

\* a list of two elements whose first overrides type and text, posted
C14_Witness ==
    \E t \in Tasks :
        /\ frame[t].op = "send_custom_message" /\ frame[t].arg = ElementsTwo
        /\ pc[t] = "post_wait"
        /\ LastPost(t).data.type = "typing"
        /\ LastPost(t).data.text = <<"X">>
        /\ LastPost(t).data.recipient = [id |-> "user"]
        /\ "foo" \notin DOMAIN LastPost(t).data

\* C15: in every reachable state the stored expiry and the stored bearer
\* token come from the same successful token response: the expiry is the
\* one that response gave the stored token, and before the first
\* successful response the expiry is the import time and no headers are
\* stored.
C15_CacheConsistent ==
    IF headers = None
    THEN token_expiration_date = 0
    ELSE /\ token_expiration_date = StoredToken(headers).exp
         /\ StoredToken(headers).iat <= now
         /\ StoredToken(headers).appid \in AppIds

\* two requests in flight together each refreshed: the last writer's token
\* and expiry are the stored ones
C15_Witness ==
    \E t, u \in Tasks :
        /\ t # u
        /\ token_calls[t] > 0 /\ pc[t] = "pipeline"
        /\ pc[u] = "post_wait" /\ token_calls[u] > 0
        /\ LastPost(u).refreshed /\ LastPost(u).headers = headers
        /\ headers # None
        /\ StoredToken(headers).appid = out_channel[u].app_id
        /\ out_channel[t].app_id # out_channel[u].app_id

\* C16: while one task's token fetch or activity POST waits for its HTTP
\* response, the other webhook tasks can take steps: a request that has
\* arrived can be handled, and a callback that is running can start its
\* own send or return.
C16_NetworkCallsSuspend ==
    \A t, u \in Tasks :
        (t # u /\ pc[t] \in {"token_wait", "post_wait"}) =>
            /\ pc[u] = "idle" => ENABLED WebhookDispatch(u)
            /\ pc[u] = "pipeline" => ENABLED PipelineReturn(u)
            /\ (pc[u] = "pipeline" /\ ops[u] < MaxOps) =>
                    ENABLED send_image_url(u)

\* C17: every request that has arrived eventually gets the fixed success
\* response, whichever branch it takes and whether its callback returns or
\* raises.
C17_EveryRequestAnswered ==
    \A t \in Tasks : Received(t) ~> Acknowledged(t)

\* the channel of task t is the one built from t's own event
BoundToOwnEvent(ch, t) ==
    /\ ch.conversation = Activity(t).conversation
    /\ ch.bot_id = Activity(t).recipient
    /\ ch.global_uri = Activity(t).serviceUrl \o <<"v3/">>

\* C18: the channel built for a type="message" event carries that event's
\* conversation, recipient and serviceUrl, is never modified after its
\* construction, and every activity POST a task issues targets the
\* conversation id and service URL of the task's own event, whatever the
\* other requests in flight are.
C18_RepliesBoundToEvent ==
    [][\A t \in Tasks :
        /\ out_channel[t] # None => out_channel'[t] = out_channel[t]
        /\ out_channel'[t] # None =>
            /\ TypeOf(t)' = "message"
            /\ BoundToOwnEvent(out_channel[t], t)'
        /\ \A i \in 1..Len(posts'[t]) :
            /\ posts'[t][i].uri.conversation = Activity(t)'.conversation.id
            /\ posts'[t][i].uri.base =
                    Activity(t)'.serviceUrl \o <<"v3/">>]_vars

\* two events of different conversations in flight: one has posted and
\* is back in its callback while the other's activity is outstanding
C18_Witness ==
    \E t, u \in Tasks :
        /\ WellFormedMessage(t) /\ WellFormedMessage(u)
        /\ Activity(t).conversation.id # Activity(u).conversation.id
        /\ pc[t] = "pipeline" /\ post_calls[t] > 0
        /\ pc[u] = "post_wait"
        /\ LastPost(u).uri.conversation = Activity(u).conversation.id
        /\ LastPost(u).uri.base # out_channel[t].global_uri

\* C19: a refresh the token endpoint answered with a failure status is
\* not remembered: the stored expiry and headers stay as they are, the
\* cache is still expired, and _get_headers returns no headers even when
\* headers of an earlier token are stored; the cache stays expired until a
\* refresh succeeds, and every send() that finds it expired issues its own
\* call to the token endpoint.
C19_FailedRefreshNotCached ==
    [][\A t \in Tasks :
        /\ (/\ pc[t] = "token_wait" /\ pc'[t] = "post_wait"
            /\ \/ headers' = headers
               \/ token_expiration_date' = token_expiration_date) =>
                /\ headers' = headers
                /\ token_expiration_date' = token_expiration_date
                /\ TokenExpired(token_expiration_date', now')
                /\ posts'[t][Len(posts'[t])].headers = None
        /\ (TokenExpired(token_expiration_date, now) /\ headers' = headers) =>
                TokenExpired(token_expiration_date', now')
        /\ (pc[t] = "send" /\ TokenExpired(token_expiration_date, now)) =>
                /\ token_calls'[t] = token_calls[t] + 1
                /\ pc'[t] = "token_wait"]_vars

\* two paragraphs of one text, each with its own failed refresh, while the
\* headers of an expired token another request fetched are stored
C19_Witness ==
    \E t \in Tasks :
        /\ frame[t].op = "send_text_message" /\ pc[t] = "post_wait"
        /\ Len(posts[t]) = 2 /\ token_calls[t] = 2
        /\ posts[t][1].refreshed /\ posts[t][1].headers = None
        /\ posts[t][2].refreshed /\ posts[t][2].headers = None
        /\ headers # None
        /\ TokenExpired(token_expiration_date, now)

\* C20: while a token that is not expired is stored, a send() of a channel
\* constructed with another app_id and app_password than the one the
\* token was issued to gets that same token, without a call to the token
\* endpoint: the token presented does not depend on the caller's
\* credentials.
C20_CacheSharedAcrossCredentials ==
    [][\A t \in Tasks :
        (/\ pc[t] = "send"
         /\ headers # None
         /\ now < token_expiration_date
         /\ StoredToken(headers).appid # out_channel[t].app_id) =>
            /\ token_calls' = token_calls
            /\ cache' = cache
            /\ pc'[t] = "post_wait"
            /\ posts'[t][Len(posts'[t])].headers = headers
            /\ StoredToken(posts'[t][Len(posts'[t])].headers).appid
                    # out_channel[t].app_id]_vars

\* a request that never called the token endpoint posts with the token
\* issued to the other instance's app_id
C20_Witness ==
    \E t, u \in Tasks :
        /\ pc[t] = "post_wait" /\ token_calls[t] = 0
        /\ token_calls[u] > 0
        /\ LastPost(t).headers # None
        /\ StoredToken(LastPost(t).headers).appid = out_channel[u].app_id
        /\ out_channel[u].app_id # out_channel[t].app_id
        /\ out_channel[u].app_password # out_channel[t].app_password
        /\ now < token_expiration_date

=============================================================================
